---- MODULE Spec2Model ----
(***************************************************************************)
(* Model of scale_orders.py, the Hyperliquid BTC order scaling tool.       *)
(*                                                                         *)
(* One run of main() is a sequence of steps (pc); every helper function    *)
(* of the script is an operator computed as the script computes it.        *)
(*                                                                         *)
(* Decimal values.  The script computes with decimal.Decimal under the     *)
(* default context: every arithmetic result is the exact result rounded    *)
(* half-even to the context precision (28 significant digits), and         *)
(* comparisons are numeric.  A Decimal is modelled by its numeric value,   *)
(* a record [c |-> coefficient, e |-> exponent] standing for c * 10^e,     *)
(* kept in the canonical form with no trailing zero in c.  The context     *)
(* precision is the definition Prec; it is scaled down from 28 so that     *)
(* coefficients fit the integers of the model checker, and the raw inputs  *)
(* (sizes, prices) carry at most Prec \div 2 significant digits, as the    *)
(* API's 5..8 digit values do against 28.  Quotients (the ratio, average   *)
(* entry prices) fill the whole precision, as they do in the script.       *)
(***************************************************************************)
EXTENDS Integers, Sequences, FiniteSets, TLC

\* Significant digits of the decimal context (getcontext().prec), scaled.
Prec == 6

\* Longest list of open orders / of fills returned by the API in a run.
MaxOrders == 2
MaxFills == 1

(***************************************************************************)
(* Decimal arithmetic layer                                                *)
(***************************************************************************)
Abs(n) == IF n < 0 THEN -n ELSE n

Sign(n) == IF n < 0 THEN -1 ELSE IF n > 0 THEN 1 ELSE 0

RECURSIVE Pow10(_)
Pow10(k) == IF k <= 0 THEN 1 ELSE 10 * Pow10(k - 1)

RECURSIVE NumDigits(_)
NumDigits(n) == IF n < 10 THEN 1 ELSE 1 + NumDigits(n \div 10)

\* The canonical record of the value c * 10^e.
RECURSIVE Norm(_, _)
Norm(c, e) ==
    IF c = 0 THEN [c |-> 0, e |-> 0]
    ELSE IF c % 10 = 0 THEN Norm(c \div 10, e + 1)
    ELSE [c |-> c, e |-> e]

\* Decimal(str): the constructor is exact, whatever the context precision.
\* A decimal string of the API or of the prompt is a literal [c, e].
Decimal(lit) == Norm(lit.c, lit.e)

Zero == [c |-> 0, e |-> 0]

\* ROUND_HALF_EVEN of the non-negative coefficient a with its last k >= 1
\* digits dropped; sticky says that non-zero digits follow the dropped ones.
RoundHalfEven(a, k, sticky) ==
    LET q == a \div Pow10(k)
        low == a % Pow10(k)
        half == 5 * Pow10(k - 1)
        up == \/ low > half
              \/ low = half /\ (sticky \/ q % 2 = 1)
    IN  IF up THEN q + 1 ELSE q

\* The context's rounding of an exact result c * 10^e to Prec digits.
ContextRound(c, e) ==
    LET n == Norm(c, e)
        a == Abs(n.c)
        k == NumDigits(a) - Prec
    IN  IF k <= 0 THEN n
        ELSE Norm(Sign(n.c) * RoundHalfEven(a, k, FALSE), n.e + k)

DecMul(x, y) == ContextRound(x.c * y.c, x.e + y.e)

DecAdd(x, y) ==
    LET m == IF x.e < y.e THEN x.e ELSE y.e
    IN  ContextRound(x.c * Pow10(x.e - m) + y.c * Pow10(y.e - m), m)

DecNeg(x) == [c |-> -x.c, e |-> x.e]

DecSub(x, y) == DecAdd(x, DecNeg(y))

DecAbs(x) == [c |-> Abs(x.c), e |-> x.e]

\* Numeric comparison (exact, no rounding).
DecLess(x, y) ==
    LET m == IF x.e < y.e THEN x.e ELSE y.e
    IN  x.c * Pow10(x.e - m) < y.c * Pow10(y.e - m)

DecLeq(x, y) == x = y \/ DecLess(x, y)

\* Long division of the remainder r by b until the quotient q has Prec
\* digits or the division is exact; k counts the decimal places produced.
RECURSIVE LongDiv(_, _, _, _)
LongDiv(q, r, b, k) ==
    IF r = 0 \/ q >= Pow10(Prec - 1) THEN [q |-> q, r |-> r, k |-> k]
    ELSE LongDiv(q * 10 + (r * 10) \div b, (r * 10) % b, b, k + 1)

\* x / y for y # 0: the exact quotient rounded half-even to Prec digits.
DecDiv(x, y) ==
    LET a == Abs(x.c)
        b == Abs(y.c)
        d == LongDiv(a \div b, a % b, b, 0)
        drop == NumDigits(d.q) - Prec
        coeff == IF drop > 0 THEN RoundHalfEven(d.q, drop, d.r # 0)
                 ELSE IF 2 * d.r > b \/ (2 * d.r = b /\ d.q % 2 = 1)
                      THEN d.q + 1
                      ELSE d.q
        exp == x.e - y.e - d.k + (IF drop > 0 THEN drop ELSE 0)
    IN  Norm(Sign(x.c) * Sign(y.c) * coeff, exp)

\* x.quantize(Decimal("0.001"), rounding=ROUND_DOWN): the digits after the
\* third decimal place are dropped (toward zero).
QuantizeDown3(x) ==
    IF x.e >= -3 THEN x
    ELSE Norm(Sign(x.c) * (Abs(x.c) \div Pow10(-3 - x.e)), -3)

(***************************************************************************)
(* Values of the run                                                       *)
(***************************************************************************)
\* An optional value: None, or Some(x).
None == <<>>

Some(x) == <<x>>

Get(o) == o[1]

\* A decimal string c * 10^e as the API or the user writes it.
Lit(c, e) == [c |-> c, e |-> e]

\* Ticks per second of the model's clock: the API's timestamps count
\* milliseconds, the model's count ticks, and "timestamp_ms / 1000" is the
\* division by TicksPerSecond.
TicksPerSecond == 10

\* datetime.now() of the run, in ticks.
Now0 == 6000000 * TicksPerSecond

\* What the user may type at the two prompts.
ChoiceInputs == {"0", "1", "x"}

SizeInputs ==
    { [parses |-> TRUE, lit |-> Lit(1, 0)],
      [parses |-> TRUE, lit |-> Lit(20, -1)],
      [parses |-> TRUE, lit |-> Lit(0, 0)],
      [parses |-> TRUE, lit |-> Lit(-1, 0)],
      [parses |-> FALSE, lit |-> Lit(0, 0)] }

\* Positions of the clearinghouse state; szi is an optional key.
Pos(coin, szi) == [coin |-> coin, szi |-> szi, entryPx |-> Lit(40, 0)]

AccountStates ==
    { <<>>,
      << Pos("ETH", Some(Lit(15, -1))) >>,
      << Pos("ETH", Some(Lit(15, -1))), Pos("BTC", Some(Lit(3, 0))) >>,
      << Pos("BTC", Some(Lit(-30, -1))) >>,
      << Pos("BTC", Some(Lit(5, -1))) >>,
      << Pos("BTC", Some(Lit(-2, 0))), Pos("BTC", Some(Lit(3, 0))) >>,
      << Pos("BTC", Some(Lit(0, 0))) >>,
      << Pos("BTC", Some(Lit(0, -3))), Pos("BTC", Some(Lit(3, 0))) >>,
      << Pos("BTC", None) >> }

\* Open orders; timestamp is an optional key.
Ord(coin, side, sz, px, ts) ==
    [coin |-> coin, side |-> side, sz |-> sz, limitPx |-> px, timestamp |-> ts]

OrderPool ==
    { Ord("BTC", "B", Lit(15, -1), Lit(50, 0), Some(Now0 - 90 * TicksPerSecond)),
      Ord("BTC", "A", Lit(15, -1), Lit(51, 0), None),
      Ord("BTC", "B", Lit(127, -4), Lit(51, 0), None),
      Ord("BTC", "A", Lit(-3, -1), Lit(50, 0), None),
      Ord("ETH", "B", Lit(1, 0), Lit(3, 0), None) }

\* Fills; time is an optional key.
FillPool == { [time |-> Some(Now0 - 30 * TicksPerSecond)], [time |-> None] }

\* The sequences over S of length at most n.
SeqsUpTo(S, n) == UNION { [1..k -> S] : k \in 0..n }

(***************************************************************************)
(* Helper functions of the script                                          *)
(***************************************************************************)
\* get_relative_time: the text is [n, unit, s] for "<n> <unit><s> ago".
Ago(n, unit) == [n |-> n, unit |-> unit, s |-> IF n # 1 THEN "s" ELSE ""]

get_relative_time(timestamp, now) ==
    LET diff == now - timestamp
        T == TicksPerSecond
    IN  IF diff < 60 * T THEN [n |-> 0, unit |-> "just now", s |-> ""]
        ELSE IF diff < 3600 * T THEN Ago(diff \div (60 * T), "minute")
        ELSE IF diff < 86400 * T THEN Ago(diff \div (3600 * T), "hour")
        ELSE IF diff < 604800 * T THEN Ago(diff \div (86400 * T), "day")
        ELSE IF diff < 2592000 * T THEN Ago(diff \div (604800 * T), "week")
        ELSE Ago(diff \div (2592000 * T), "month")

SetMax(S) == CHOOSE m \in S : \A x \in S : x <= m

\* Fault variant of get_last_activity_time: the fills are left out.
get_last_activity_time_OrdersOnly(os, fs, now) ==
    LET timestamps ==
            { Get(os[i].timestamp) : i \in { j \in 1..Len(os) : os[j].timestamp # None } }
    IN  IF timestamps = {} THEN [n |-> 0, unit |-> "Unknown", s |-> ""]
        ELSE get_relative_time(SetMax(timestamps), now)

get_last_activity_time(os, fs, now) ==
    LET timestamps ==
            { Get(os[i].timestamp) : i \in { j \in 1..Len(os) : os[j].timestamp # None } }
            \cup { Get(fs[i].time) : i \in { j \in 1..Len(fs) : fs[j].time # None } }
    IN  IF timestamps = {} THEN [n |-> 0, unit |-> "Unknown", s |-> ""]
        ELSE get_relative_time(SetMax(timestamps), now)

get_btc_position(state) ==
    LET hits == { i \in 1..Len(state) : state[i].coin = "BTC" }
    IN  IF hits = {} THEN None
        ELSE Some(state[CHOOSE i \in hits : \A j \in hits : i <= j])

IsBtc(order) == order.coin = "BTC"

\* Fault variant of get_btc_orders: the coin filter is dropped.
get_btc_orders_Unfiltered(os) == os

get_btc_orders(os) == SelectSeq(os, IsBtc)

\* position.get("szi", "0") as a Decimal.
Szi(position) ==
    IF position.szi = None THEN Decimal(Lit(0, 0)) ELSE Decimal(Get(position.szi))

\* Fault variant of determine_position_direction: "size >= 0" is long.
determine_position_direction_ZeroIsLong(position) ==
    LET size == Szi(position)
    IN  IF size.c >= 0 THEN "long" ELSE "short"

determine_position_direction(position) ==
    LET size == Szi(position)
    IN  IF size.c > 0 THEN "long"
        ELSE IF size.c < 0 THEN "short"
        ELSE "None"

get_position_size(position) == DecAbs(Szi(position))

ScaleOne(order, r) ==
    LET original_size == DecAbs(Decimal(order.sz))
        price == Decimal(order.limitPx)
        scaled_size == QuantizeDown3(DecMul(original_size, r))
    IN  [side |-> order.side,
         price |-> price,
         original_size |-> original_size,
         scaled_size |-> scaled_size,
         notional |-> DecMul(scaled_size, price)]

\* Fault variant of scale_orders: the scaled orders come out in reverse.
scale_orders_Reversed(os, r) == [i \in 1..Len(os) |-> ScaleOne(os[Len(os) + 1 - i], r)]

scale_orders(os, r) == [i \in 1..Len(os) |-> ScaleOne(os[i], r)]

Upper(side) == IF side = "b" THEN "B" ELSE IF side = "a" THEN "A" ELSE side

\* sorted(scaled_orders, key=price, reverse=True); the sort is stable.
RECURSIVE SortedByPriceDesc(_)
SortedByPriceDesc(rows) ==
    IF rows = <<>> THEN <<>>
    ELSE LET best == CHOOSE i \in 1..Len(rows) :
                        /\ \A j \in 1..Len(rows) : DecLeq(rows[j].price, rows[i].price)
                        /\ \A j \in 1..(i - 1) : rows[j].price # rows[i].price
             rest == [j \in 1..(Len(rows) - 1) |-> IF j < best THEN rows[j] ELSE rows[j + 1]]
         IN  <<rows[best]>> \o SortedByPriceDesc(rest)

print_scaled_orders(rows) == SortedByPriceDesc(rows)

\* sum(...) of Python: 0 + x1 + x2 + ..., every addition in the context.
RECURSIVE SumFrom(_, _, _)
SumFrom(acc, xs, i) ==
    IF i > Len(xs) THEN acc ELSE SumFrom(DecAdd(acc, xs[i]), xs, i + 1)

DecSum(xs) == SumFrom(Zero, xs, 1)

IsBuy(o) == Upper(o.side) = "B"

IsSell(o) == Upper(o.side) = "A"

\* What a summary prints: shown is FALSE for "No pending ... orders to
\* summarize."; avg is the optional "Average Entry Price" line and branch
\* names the expression that computed it.
NoSummary ==
    [shown |-> FALSE, current |-> Zero, total |-> Zero, net |-> Zero,
     avg |-> None, branch |-> "none", capital |-> Zero]

\* Fault variant of print_long_summary: the average blends the entry price
\* in, whatever the sign of the scaled current size.
print_long_summary_AlwaysBlended(rows, current_position_size, current_entry_price, r) ==
    LET buy_orders == SelectSeq(rows, IsBuy)
        total_buy_size == DecSum([i \in 1..Len(buy_orders) |-> buy_orders[i].scaled_size])
        total_buy_cost ==
            DecSum([i \in 1..Len(buy_orders) |->
                       DecMul(buy_orders[i].scaled_size, buy_orders[i].price)])
        scaled_current_size == DecMul(current_position_size, r)
        net_position == DecAdd(scaled_current_size, total_buy_size)
        current_cost == DecMul(scaled_current_size, current_entry_price)
    IN  IF buy_orders = <<>> THEN NoSummary
        ELSE [shown |-> TRUE,
              current |-> scaled_current_size,
              total |-> total_buy_size,
              net |-> net_position,
              avg |-> IF net_position.c > 0
                      THEN Some(DecDiv(DecAdd(current_cost, total_buy_cost), net_position))
                      ELSE None,
              branch |-> IF net_position.c > 0 THEN "blended" ELSE "none",
              capital |-> total_buy_cost]

\* Fault variant of print_long_summary: the net position is taken as
\* total_buy_size - scaled_current_size.
print_long_summary_NetSignSlip(rows, current_position_size, current_entry_price, r) ==
    LET buy_orders == SelectSeq(rows, IsBuy)
        total_buy_size == DecSum([i \in 1..Len(buy_orders) |-> buy_orders[i].scaled_size])
        total_buy_cost ==
            DecSum([i \in 1..Len(buy_orders) |->
                       DecMul(buy_orders[i].scaled_size, buy_orders[i].price)])
        scaled_current_size == DecMul(current_position_size, r)
        net_position == DecSub(total_buy_size, scaled_current_size)
        current_cost == DecMul(scaled_current_size, current_entry_price)
    IN  IF buy_orders = <<>> THEN NoSummary
        ELSE [shown |-> TRUE,
              current |-> scaled_current_size,
              total |-> total_buy_size,
              net |-> net_position,
              avg |-> IF net_position.c > 0
                      THEN IF scaled_current_size.c > 0
                           THEN Some(DecDiv(DecAdd(current_cost, total_buy_cost), net_position))
                           ELSE IF total_buy_size.c > 0
                                THEN Some(DecDiv(total_buy_cost, total_buy_size))
                                ELSE Some(Zero)
                      ELSE None,
              branch |-> IF net_position.c > 0
                         THEN IF scaled_current_size.c > 0 THEN "blended"
                              ELSE IF total_buy_size.c > 0 THEN "orders only"
                              ELSE "zero"
                         ELSE "none",
              capital |-> total_buy_cost]

print_long_summary(rows, current_position_size, current_entry_price, r) ==
    LET buy_orders == SelectSeq(rows, IsBuy)
        total_buy_size == DecSum([i \in 1..Len(buy_orders) |-> buy_orders[i].scaled_size])
        total_buy_cost ==
            DecSum([i \in 1..Len(buy_orders) |->
                       DecMul(buy_orders[i].scaled_size, buy_orders[i].price)])
        scaled_current_size == DecMul(current_position_size, r)
        net_position == DecAdd(scaled_current_size, total_buy_size)
        current_cost == DecMul(scaled_current_size, current_entry_price)
    IN  IF buy_orders = <<>> THEN NoSummary
        ELSE [shown |-> TRUE,
              current |-> scaled_current_size,
              total |-> total_buy_size,
              net |-> net_position,
              avg |-> IF net_position.c > 0
                      THEN IF scaled_current_size.c > 0
                           THEN Some(DecDiv(DecAdd(current_cost, total_buy_cost), net_position))
                           ELSE IF total_buy_size.c > 0
                                THEN Some(DecDiv(total_buy_cost, total_buy_size))
                                ELSE Some(Zero)
                      ELSE None,
              branch |-> IF net_position.c > 0
                         THEN IF scaled_current_size.c > 0 THEN "blended"
                              ELSE IF total_buy_size.c > 0 THEN "orders only"
                              ELSE "zero"
                         ELSE "none",
              capital |-> total_buy_cost]

\* Fault variant of print_short_summary: the sums range over all orders.
print_short_summary_AllOrders(rows, current_position_size, current_entry_price, r) ==
    LET sell_orders == SelectSeq(rows, IsSell)
        total_sell_size == DecSum([i \in 1..Len(rows) |-> rows[i].scaled_size])
        total_sell_value ==
            DecSum([i \in 1..Len(rows) |-> DecMul(rows[i].scaled_size, rows[i].price)])
        scaled_current_size == DecMul(current_position_size, r)
        net_position == DecSub(scaled_current_size, total_sell_size)
        current_value == DecMul(DecAbs(scaled_current_size), current_entry_price)
    IN  IF sell_orders = <<>> THEN NoSummary
        ELSE [shown |-> TRUE,
              current |-> scaled_current_size,
              total |-> total_sell_size,
              net |-> net_position,
              avg |-> IF net_position.c < 0
                      THEN IF scaled_current_size.c < 0
                           THEN Some(DecDiv(DecAdd(current_value, total_sell_value),
                                            DecAbs(net_position)))
                           ELSE IF total_sell_size.c > 0
                                THEN Some(DecDiv(total_sell_value, total_sell_size))
                                ELSE Some(Zero)
                      ELSE None,
              branch |-> IF net_position.c < 0
                         THEN IF scaled_current_size.c < 0 THEN "blended"
                              ELSE IF total_sell_size.c > 0 THEN "orders only"
                              ELSE "zero"
                         ELSE "none",
              capital |-> total_sell_value]

print_short_summary(rows, current_position_size, current_entry_price, r) ==
    LET sell_orders == SelectSeq(rows, IsSell)
        total_sell_size == DecSum([i \in 1..Len(sell_orders) |-> sell_orders[i].scaled_size])
        total_sell_value ==
            DecSum([i \in 1..Len(sell_orders) |->
                       DecMul(sell_orders[i].scaled_size, sell_orders[i].price)])
        scaled_current_size == DecMul(current_position_size, r)
        net_position == DecSub(scaled_current_size, total_sell_size)
        current_value == DecMul(DecAbs(scaled_current_size), current_entry_price)
    IN  IF sell_orders = <<>> THEN NoSummary
        ELSE [shown |-> TRUE,
              current |-> scaled_current_size,
              total |-> total_sell_size,
              net |-> net_position,
              avg |-> IF net_position.c < 0
                      THEN IF scaled_current_size.c < 0
                           THEN Some(DecDiv(DecAdd(current_value, total_sell_value),
                                            DecAbs(net_position)))
                           ELSE IF total_sell_size.c > 0
                                THEN Some(DecDiv(total_sell_value, total_sell_size))
                                ELSE Some(Zero)
                      ELSE None,
              branch |-> IF net_position.c < 0
                         THEN IF scaled_current_size.c < 0 THEN "blended"
                              ELSE IF total_sell_size.c > 0 THEN "orders only"
                              ELSE "zero"
                         ELSE "none",
              capital |-> total_sell_value]

(***************************************************************************)
(* State of one run of main()                                              *)
(***************************************************************************)
VARIABLES
    pc,                \* the statement of main() to execute next
    exit_status,       \* None while running, Some(0) or Some(1) at exit
    stdout,            \* what has been printed, one tag per block
    calls,             \* the functions main() has called, in order
    user_direction,    \* get_user_position_choice()
    user_btc_size,     \* get_user_btc_size()
    clock,             \* datetime.now()
    account_state,     \* fetch_account_state(): the assetPositions list
    orders,            \* fetch_open_orders()
    fills,             \* fetch_user_fills()
    last_activity,
    btc_position,
    account_direction,
    btc_orders,
    account_btc_size,
    ratio,
    scaled_orders,
    table,             \* the rows print_scaled_orders printed
    long_summary,
    short_summary

inputs == <<user_direction, user_btc_size>>

fetched == <<account_state, orders, fills>>

derived == <<last_activity, btc_position, account_direction, btc_orders,
             account_btc_size, ratio>>

results == <<scaled_orders, table, long_summary, short_summary>>

vars == <<pc, exit_status, stdout, calls, clock, inputs, fetched, derived, results>>

Init ==
    /\ pc = "choice"
    /\ exit_status = None
    /\ stdout = <<"banner">>
    /\ calls = <<"get_address">>
    /\ user_direction = ""
    /\ user_btc_size = None
    /\ clock = Now0
    /\ account_state = None
    /\ orders = None
    /\ fills = None
    /\ last_activity = None
    /\ btc_position = None
    /\ account_direction = "None"
    /\ btc_orders = <<>>
    /\ account_btc_size = None
    /\ ratio = None
    /\ scaled_orders = None
    /\ table = None
    /\ long_summary = None
    /\ short_summary = None

\* sys.exit(code) after printing msg.
Exit(code, msg) ==
    /\ pc' = "exited"
    /\ exit_status' = Some(code)
    /\ stdout' = Append(stdout, msg)

Goto(next) ==
    /\ pc' = next
    /\ UNCHANGED exit_status

(***************************************************************************)
(* The steps of main()                                                     *)
(***************************************************************************)
\* get_user_position_choice(): re-prompts until the input is 0 or 1.
ChoiceStep ==
    /\ pc = "choice"
    /\ \E choice \in ChoiceInputs :
          IF choice \in {"0", "1"}
          THEN /\ user_direction' = (IF choice = "0" THEN "long" ELSE "short")
               /\ calls' = Append(calls, "get_user_position_choice")
               /\ Goto("size")
          ELSE UNCHANGED <<pc, exit_status, calls, user_direction>>
    /\ UNCHANGED <<stdout, clock, user_btc_size, fetched, derived, results>>

\* Fault variant of get_user_btc_size: "size < 0" in place of "size <= 0".
SizeStep_AcceptsZero ==
    /\ pc = "size"
    /\ \E typed \in SizeInputs :
          IF typed.parses /\ Decimal(typed.lit).c >= 0
          THEN /\ user_btc_size' = Some(Decimal(typed.lit))
               /\ calls' = Append(calls, "get_user_btc_size")
               /\ stdout' = Append(stdout, "selection")
               /\ Goto("fetch_account")
          ELSE UNCHANGED <<pc, exit_status, calls, stdout, user_btc_size>>
    /\ UNCHANGED <<clock, user_direction, fetched, derived, results>>

\* get_user_btc_size(): re-prompts until the input parses and is positive.
SizeStep ==
    /\ pc = "size"
    /\ \E typed \in SizeInputs :
          IF typed.parses /\ Decimal(typed.lit).c > 0
          THEN /\ user_btc_size' = Some(Decimal(typed.lit))
               /\ calls' = Append(calls, "get_user_btc_size")
               /\ stdout' = Append(stdout, "selection")
               /\ Goto("fetch_account")
          ELSE UNCHANGED <<pc, exit_status, calls, stdout, user_btc_size>>
    /\ UNCHANGED <<clock, user_direction, fetched, derived, results>>

\* fetch_account_state(): the response, or sys.exit(1) on a request error.
FetchAccountState ==
    /\ pc = "fetch_account"
    /\ calls' = Append(calls, "fetch_account_state")
    /\ \/ /\ \E state \in AccountStates : account_state' = Some(state)
          /\ Goto("fetch_orders")
          /\ UNCHANGED stdout
       \/ /\ Exit(1, "Error fetching account state")
          /\ UNCHANGED account_state
    /\ UNCHANGED <<clock, inputs, orders, fills, derived, results>>

\* fetch_open_orders(): the response, or sys.exit(1) on a request error.
FetchOpenOrders ==
    /\ pc = "fetch_orders"
    /\ calls' = Append(calls, "fetch_open_orders")
    /\ \/ /\ \E os \in SeqsUpTo(OrderPool, MaxOrders) : orders' = Some(os)
          /\ Goto("fetch_fills")
          /\ UNCHANGED stdout
       \/ /\ Exit(1, "Error fetching open orders")
          /\ UNCHANGED orders
    /\ UNCHANGED <<clock, inputs, account_state, fills, derived, results>>

\* Fault variant of fetch_user_fills: a request error ends the run like the
\* other two fetches.
FetchUserFills_Fatal ==
    /\ pc = "fetch_fills"
    /\ calls' = Append(calls, "fetch_user_fills")
    /\ \/ /\ \E fs \in SeqsUpTo(FillPool, MaxFills) : fills' = Some(fs)
          /\ Goto("activity")
          /\ UNCHANGED stdout
       \/ /\ Exit(1, "Error fetching fills")
          /\ UNCHANGED fills
    /\ UNCHANGED <<clock, inputs, account_state, orders, derived, results>>

\* fetch_user_fills(): the response, or [] on a request error.
FetchUserFills ==
    /\ pc = "fetch_fills"
    /\ calls' = Append(calls, "fetch_user_fills")
    /\ \/ \E fs \in SeqsUpTo(FillPool, MaxFills) : fills' = Some(fs)
       \/ fills' = Some(<<>>)
    /\ Goto("activity")
    /\ UNCHANGED <<stdout, clock, inputs, account_state, orders, derived, results>>

ActivityStep ==
    /\ pc = "activity"
    /\ calls' = Append(calls, "get_last_activity_time")
    /\ last_activity' = Some(get_last_activity_time(Get(orders), Get(fills), clock))
    /\ stdout' = Append(stdout, "Last account activity")
    /\ Goto("position")
    /\ UNCHANGED <<clock, inputs, fetched, btc_position, account_direction,
                   btc_orders, account_btc_size, ratio, results>>

PositionStep ==
    /\ pc = "position"
    /\ calls' = Append(calls, "get_btc_position")
    /\ btc_position' = get_btc_position(Get(account_state))
    /\ IF btc_position' = None
       THEN Exit(1, "Error: No BTC position found")
       ELSE Goto("direction") /\ UNCHANGED stdout
    /\ UNCHANGED <<clock, inputs, fetched, last_activity, account_direction,
                   btc_orders, account_btc_size, ratio, results>>

DirectionStep ==
    /\ pc = "direction"
    /\ calls' = Append(calls, "determine_position_direction")
    /\ account_direction' = determine_position_direction(Get(btc_position))
    /\ IF account_direction' = "None"
       THEN Exit(1, "Error: no active BTC position (size is 0)")
       ELSE Goto("validate") /\ UNCHANGED stdout
    /\ UNCHANGED <<clock, inputs, fetched, last_activity, btc_position,
                   btc_orders, account_btc_size, ratio, results>>

\* Fault variant of the direction validation: the comparison is dropped.
ValidateStep_NoCheck ==
    /\ pc = "validate"
    /\ Goto("orders")
    /\ UNCHANGED <<stdout, calls, clock, inputs, fetched, derived, results>>

ValidateStep ==
    /\ pc = "validate"
    /\ IF account_direction # user_direction
       THEN Exit(1, "ERROR: Direction mismatch")
       ELSE Goto("orders") /\ UNCHANGED stdout
    /\ UNCHANGED <<calls, clock, inputs, fetched, derived, results>>

OrdersStep ==
    /\ pc = "orders"
    /\ calls' = Append(calls, "get_btc_orders")
    /\ btc_orders' = get_btc_orders(Get(orders))
    /\ IF btc_orders' = <<>>
       THEN Exit(0, "No pending BTC orders found")
       ELSE Goto("ratio") /\ UNCHANGED stdout
    /\ UNCHANGED <<clock, inputs, fetched, last_activity, btc_position,
                   account_direction, account_btc_size, ratio, results>>

\* Fault variant of the ratio of main: the quotient is taken the wrong way
\* round, account size over desired size.
RatioStep_Inverted ==
    /\ pc = "ratio"
    /\ calls' = Append(calls, "get_position_size")
    /\ account_btc_size' = Some(get_position_size(Get(btc_position)))
    /\ IF Get(account_btc_size') = Zero
       THEN /\ Exit(1, "Error: position size is 0, cannot calculate ratio")
            /\ UNCHANGED ratio
       ELSE /\ ratio' = Some(DecDiv(Get(account_btc_size'), Get(user_btc_size)))
            /\ stdout' = Append(stdout, "Account / You / Pending orders")
            /\ Goto("scale")
    /\ UNCHANGED <<clock, inputs, fetched, last_activity, btc_position,
                   account_direction, btc_orders, results>>

RatioStep ==
    /\ pc = "ratio"
    /\ calls' = Append(calls, "get_position_size")
    /\ account_btc_size' = Some(get_position_size(Get(btc_position)))
    /\ IF Get(account_btc_size') = Zero
       THEN /\ Exit(1, "Error: position size is 0, cannot calculate ratio")
            /\ UNCHANGED ratio
       ELSE /\ ratio' = Some(DecDiv(Get(user_btc_size), Get(account_btc_size')))
            /\ stdout' = Append(stdout, "Account / You / Pending orders")
            /\ Goto("scale")
    /\ UNCHANGED <<clock, inputs, fetched, last_activity, btc_position,
                   account_direction, btc_orders, results>>

ScaleStep ==
    /\ pc = "scale"
    /\ calls' = Append(calls, "scale_orders")
    /\ scaled_orders' = Some(scale_orders(btc_orders, Get(ratio)))
    /\ Goto("table")
    /\ UNCHANGED <<stdout, clock, inputs, fetched, derived, table,
                   long_summary, short_summary>>

TableStep ==
    /\ pc = "table"
    /\ calls' = Append(calls, "print_scaled_orders")
    /\ table' = Some(print_scaled_orders(Get(scaled_orders)))
    /\ stdout' = Append(stdout, "scaled orders table")
    /\ Goto("long")
    /\ UNCHANGED <<clock, inputs, fetched, derived, scaled_orders,
                   long_summary, short_summary>>

LongStep ==
    /\ pc = "long"
    /\ calls' = Append(calls, "print_long_summary")
    /\ long_summary' =
           Some(print_long_summary(Get(scaled_orders), Szi(Get(btc_position)),
                                   Decimal(Get(btc_position).entryPx), Get(ratio)))
    /\ stdout' = Append(stdout, IF Get(long_summary').shown THEN "LONG SUMMARY"
                                ELSE "No pending buy orders to summarize")
    /\ Goto("short")
    /\ UNCHANGED <<clock, inputs, fetched, derived, scaled_orders, table,
                   short_summary>>

ShortStep ==
    /\ pc = "short"
    /\ calls' = Append(calls, "print_short_summary")
    /\ short_summary' =
           Some(print_short_summary(Get(scaled_orders), Szi(Get(btc_position)),
                                    Decimal(Get(btc_position).entryPx), Get(ratio)))
    /\ stdout' = Append(stdout, IF Get(short_summary').shown THEN "SHORT SUMMARY"
                                ELSE "No pending sell orders to summarize")
    /\ Goto("finish")
    /\ UNCHANGED <<clock, inputs, fetched, derived, scaled_orders, table,
                   long_summary>>

\* main() returns: the process ends with status 0.
FinishStep ==
    /\ pc = "finish"
    /\ Exit(0, "Done!")
    /\ UNCHANGED <<calls, clock, inputs, fetched, derived, results>>

Next ==
    \/ ChoiceStep
    \/ SizeStep
    \/ FetchAccountState
    \/ FetchOpenOrders
    \/ FetchUserFills
    \/ ActivityStep
    \/ PositionStep
    \/ DirectionStep
    \/ ValidateStep
    \/ OrdersStep
    \/ RatioStep
    \/ ScaleStep
    \/ TableStep
    \/ LongStep
    \/ ShortStep
    \/ FinishStep

Spec == Init /\ [][Next]_vars

(***************************************************************************)
(* get_last_activity_time on its own: the run stands at its call, with     *)
(* orders and fills whose timestamps lie on both sides of every bucket     *)
(* boundary of get_relative_time.                                          *)
(***************************************************************************)
BucketSeconds == {60, 3600, 86400, 604800, 2592000}

Ages ==
    { b * TicksPerSecond - 1 : b \in BucketSeconds }
    \cup { b * TicksPerSecond : b \in BucketSeconds }
    \cup { 2 * 60 * TicksPerSecond, 2 * 2592000 * TicksPerSecond, -5 * TicksPerSecond }

OptionalTimes == {None} \cup { Some(Now0 - a) : a \in Ages }

TimedOrders == { Ord("ETH", "B", Lit(1, 0), Lit(3, 0), ts) : ts \in OptionalTimes }

TimedFills == { [time |-> ts] : ts \in OptionalTimes }

InitTime ==
    /\ pc = "activity"
    /\ exit_status = None
    /\ stdout = <<"banner", "selection">>
    /\ calls = <<"get_address", "get_user_position_choice", "get_user_btc_size",
                 "fetch_account_state", "fetch_open_orders", "fetch_user_fills">>
    /\ user_direction = "long"
    /\ user_btc_size = Some(Decimal(Lit(1, 0)))
    /\ clock = Now0
    /\ account_state = Some(<<>>)
    /\ orders \in { Some(os) : os \in SeqsUpTo(TimedOrders, MaxOrders) }
    /\ fills \in { Some(fs) : fs \in SeqsUpTo(TimedFills, MaxFills) }
    /\ last_activity = None
    /\ btc_position = None
    /\ account_direction = "None"
    /\ btc_orders = <<>>
    /\ account_btc_size = None
    /\ ratio = None
    /\ scaled_orders = None
    /\ table = None
    /\ long_summary = None
    /\ short_summary = None

SpecTime == InitTime /\ [][ActivityStep]_vars

(***************************************************************************)
(* The scaling and the two projections on their own: scale_orders and the  *)
(* summaries applied, as main applies them, to any order list, signed      *)
(* position size, entry price and positive ratio.                          *)
(***************************************************************************)
ProjectionOrders == { o \in OrderPool : o.coin = "BTC" }

ProjectionPositions ==
    { [coin |-> "BTC", szi |-> szi, entryPx |-> px] :
         szi \in { Some(Lit(3, 0)), Some(Lit(-30, -1)), Some(Lit(5, -1)),
                   Some(Lit(-2, 0)), Some(Lit(0, 0)), Some(Lit(-5, -1)), None },
         px \in { Lit(40, 0), Lit(0, 0) } }

\* 0.001 truncates every order of the pool but one to 0.000; 1/3 is a
\* quotient the context rounds.
ProjectionRatios ==
    { Decimal(Lit(1, -3)), DecDiv(Decimal(Lit(1, 0)), Decimal(Lit(3, 0))),
      Decimal(Lit(2, 0)) }

InitProjections ==
    /\ pc = "scale"
    /\ exit_status = None
    /\ stdout = <<"banner", "selection", "Account / You / Pending orders">>
    /\ calls = <<"get_address", "get_user_position_choice", "get_user_btc_size",
                 "fetch_account_state", "fetch_open_orders", "fetch_user_fills",
                 "get_last_activity_time", "get_btc_position",
                 "determine_position_direction", "get_btc_orders",
                 "get_position_size">>
    /\ user_direction = "long"
    /\ user_btc_size = Some(Decimal(Lit(1, 0)))
    /\ clock = Now0
    /\ \E position \in ProjectionPositions :
          /\ account_state = Some(<<position>>)
          /\ btc_position = Some(position)
          /\ account_direction = determine_position_direction(position)
          /\ account_btc_size = Some(get_position_size(position))
    /\ \E os \in SeqsUpTo(ProjectionOrders, MaxOrders) :
          /\ orders = Some(os)
          /\ btc_orders = os
          /\ last_activity = Some(get_last_activity_time(os, <<>>, Now0))
    /\ fills = Some(<<>>)
    /\ ratio \in { Some(r) : r \in ProjectionRatios }
    /\ scaled_orders = None
    /\ table = None
    /\ long_summary = None
    /\ short_summary = None

NextProjections ==
    \/ ScaleStep
    \/ TableStep
    \/ LongStep
    \/ ShortStep
    \/ FinishStep

SpecProjections == InitProjections /\ [][NextProjections]_vars

(***************************************************************************)
(* Exact arithmetic, for stating properties: no context rounding.          *)
(***************************************************************************)
ExactMul(x, y) == Norm(x.c * y.c, x.e + y.e)

ExactAdd(x, y) ==
    LET m == IF x.e < y.e THEN x.e ELSE y.e
    IN  Norm(x.c * Pow10(x.e - m) + y.c * Pow10(y.e - m), m)

\* floor3 of a non-negative value: its digits after the third decimal
\* place cut off.
Floor3(x) == IF x.e >= -3 THEN x ELSE Norm(x.c \div Pow10(-3 - x.e), -3)

Milli == [c |-> 1, e |-> -3]

One == [c |-> 1, e |-> 0]

Called(f) == \E i \in 1..Len(calls) : calls[i] = f

Printed(tag) == \E i \in 1..Len(stdout) : stdout[i] = tag

(***************************************************************************)
(* C1.  For every order size s and positive ratio r, scale_orders yields   *)
(* scaled_size = floor3(|s| * r): a multiple of 0.001, not negative, never *)
(* above |s| * r and less than 0.001 below it; at ratio 1 it is the        *)
(* original size cut to 3 decimals.                                        *)
(***************************************************************************)
C1_ScaledSizeIsFloor3 ==
    scaled_orders # None =>
        \A i \in 1..Len(Get(scaled_orders)) :
            LET row == Get(scaled_orders)[i]
                s == DecAbs(Decimal(btc_orders[i].sz))
                product == ExactMul(s, Get(ratio))
            IN  /\ row.scaled_size = Floor3(product)
                /\ row.scaled_size.e >= -3
                /\ row.scaled_size.c >= 0
                /\ DecLeq(row.scaled_size, product)
                /\ DecLess(product, ExactAdd(row.scaled_size, Milli))
                /\ Get(ratio) = One => row.scaled_size = Floor3(s)

(***************************************************************************)
(* The account's BTC position as the API states it, read off the fetched   *)
(* account state without the script's helpers.                             *)
(***************************************************************************)
BtcEntries == { i \in 1..Len(Get(account_state)) : Get(account_state)[i].coin = "BTC" }

PositionMissing == account_state # None /\ BtcEntries = {}

\* The sign of the signed size of the first BTC entry (0 when the key is
\* missing).
SignedSizeSign ==
    LET p == Get(account_state)[CHOOSE i \in BtcEntries : \A j \in BtcEntries : i <= j]
    IN  IF p.szi = None THEN 0 ELSE Sign(Get(p.szi).c)

PositionZero == account_state # None /\ BtcEntries # {} /\ SignedSizeSign = 0

DirectionDiffers ==
    /\ account_state # None
    /\ BtcEntries # {}
    /\ \/ SignedSizeSign > 0 /\ user_direction # "long"
       \/ SignedSizeSign < 0 /\ user_direction # "short"

PositionFatal == PositionMissing \/ PositionZero \/ DirectionDiffers

NothingScaled ==
    /\ ~Called("scale_orders")
    /\ scaled_orders = None
    /\ table = None
    /\ long_summary = None
    /\ short_summary = None
    /\ ~Printed("scaled orders table")
    /\ ~Printed("LONG SUMMARY")
    /\ ~Printed("SHORT SUMMARY")

(***************************************************************************)
(* C2.  When the BTC position is missing, or its signed size is zero, or   *)
(* its direction differs from the user's, the run never gets past the      *)
(* direction validation: it ends with status 1, scale_orders is not        *)
(* called and neither the table nor a fill summary is printed.             *)
(***************************************************************************)
C2_FatalPositionHaltsBeforeScaling ==
    PositionFatal =>
        /\ pc \in {"fetch_orders", "fetch_fills", "activity", "position",
                   "direction", "validate", "exited"}
        /\ pc = "exited" => exit_status = Some(1)
        /\ NothingScaled

C2_Witness ==
    /\ DirectionDiffers
    /\ pc = "exited"
    /\ exit_status = Some(1)
    /\ Printed("ERROR: Direction mismatch")

(***************************************************************************)
(* C3.  As claimed: whenever both fetches succeed and no BTC order is      *)
(* left after filtering, the run ends with status 0 and the "no pending    *)
(* orders" message, without table or summary.                              *)
(***************************************************************************)
NoBtcOrders ==
    /\ account_state # None
    /\ orders # None
    /\ \A i \in 1..Len(Get(orders)) : Get(orders)[i].coin # "BTC"

C3_EmptyOrdersExitZero ==
    (NoBtcOrders /\ pc = "exited") =>
        /\ exit_status = Some(0)
        /\ Printed("No pending BTC orders found")
        /\ NothingScaled

(***************************************************************************)
(* C3, amended.  Whenever both fetches succeed, the BTC position exists    *)
(* with a non-zero size of the user's direction and no BTC order is left   *)
(* after filtering, the run never gets past the order filter: it ends      *)
(* with status 0 and the "no pending orders" message, without table or     *)
(* summary.                                                                *)
(***************************************************************************)
C3_EmptyOrdersExitZeroAfterPositionChecks ==
    (NoBtcOrders /\ ~PositionFatal) =>
        /\ pc \in {"fetch_fills", "activity", "position", "direction",
                   "validate", "orders", "exited"}
        /\ pc = "exited" =>
              /\ exit_status = Some(0)
              /\ Printed("No pending BTC orders found")
        /\ NothingScaled

C3_Witness ==
    /\ NoBtcOrders
    /\ ~PositionFatal
    /\ Len(Get(orders)) > 0
    /\ pc = "exited"
    /\ exit_status = Some(0)
    /\ Printed("No pending BTC orders found")

(***************************************************************************)
(* C4.  A failed account-state or open-orders fetch ends the run at once   *)
(* with status 1: the fetch is not repeated and no later step runs.  The   *)
(* fills fetch never ends the run: it always yields a list (the empty one  *)
(* on failure) and the run goes on to the next step.                       *)
(***************************************************************************)
Last(seq) == seq[Len(seq)]

Count(f) == Cardinality({ i \in 1..Len(calls) : calls[i] = f })

C4_FetchFailures ==
    /\ \A f \in {"fetch_account_state", "fetch_open_orders", "fetch_user_fills"} :
          Count(f) <= 1
    /\ (Called("fetch_account_state") /\ account_state = None) =>
          /\ pc = "exited"
          /\ exit_status = Some(1)
          /\ Last(calls) = "fetch_account_state"
          /\ Last(stdout) = "Error fetching account state"
    /\ (Called("fetch_open_orders") /\ orders = None) =>
          /\ pc = "exited"
          /\ exit_status = Some(1)
          /\ Last(calls) = "fetch_open_orders"
          /\ Last(stdout) = "Error fetching open orders"
    /\ Called("fetch_user_fills") => fills # None
    /\ Last(calls) = "fetch_user_fills" => (pc = "activity" /\ exit_status = None)

C4_Witness ==
    /\ Called("fetch_open_orders")
    /\ orders = None
    /\ pc = "exited"
    /\ exit_status = Some(1)

(***************************************************************************)
(* C5.  A ratio exists only with a non-zero reference size and a positive  *)
(* desired size, and is then positive; with a reference size of zero no    *)
(* ratio is ever produced and the run ends with status 1.                  *)
(***************************************************************************)
C5_RatioDefinedAndPositive ==
    /\ user_btc_size # None => Get(user_btc_size).c > 0
    /\ ratio # None =>
          /\ account_btc_size # None
          /\ Get(account_btc_size).c > 0
          /\ ~PositionZero
          /\ Get(ratio).c > 0
    /\ PositionZero =>
          /\ ratio = None
          /\ pc \notin {"orders", "ratio", "scale", "table", "long", "short", "finish"}
          /\ pc = "exited" => exit_status = Some(1)

C5_Witness ==
    /\ ratio # None
    /\ pc = "scale"
    /\ DecLess(Get(ratio), One)

(***************************************************************************)
(* The projections, restated from the scaled orders of the run.  Sums,     *)
(* products and quotients are those of the Decimal context.                *)
(***************************************************************************)
Rows == Get(scaled_orders)

SideRows(side) == { i \in 1..Len(Rows) : Rows[i].side = side }

\* The sum of the scaled sizes of the first n rows that are of the side.
RECURSIVE SizeOfSide(_, _)
SizeOfSide(side, n) ==
    IF n = 0 THEN Zero
    ELSE IF Rows[n].side = side
         THEN DecAdd(SizeOfSide(side, n - 1), Rows[n].scaled_size)
         ELSE SizeOfSide(side, n - 1)

\* The sum of scaled size * price of the first n rows that are of the side.
RECURSIVE ValueOfSide(_, _)
ValueOfSide(side, n) ==
    IF n = 0 THEN Zero
    ELSE IF Rows[n].side = side
         THEN DecAdd(ValueOfSide(side, n - 1), DecMul(Rows[n].scaled_size, Rows[n].price))
         ELSE ValueOfSide(side, n - 1)

CurrentSize == Decimal(Get(Get(btc_position).szi))

CurrentEntry == Decimal(Get(btc_position).entryPx)

ScaledCurrentSize == DecMul(CurrentSize, Get(ratio))

(***************************************************************************)
(* C6.  Buy-fill projection.  It is reported iff a buy order exists, with  *)
(* net_position = scaled_current_size + total_buy_size and                 *)
(* capital_required = total_buy_cost; an average entry is emitted iff      *)
(* net_position > 0: (scaled_current_size * entry + total_buy_cost) /      *)
(* net_position when scaled_current_size > 0, and total_buy_cost /         *)
(* total_buy_size otherwise.                                               *)
(***************************************************************************)
C6_BuyFillProjection ==
    long_summary # None =>
        LET L == Get(long_summary)
            total_buy_size == SizeOfSide("B", Len(Rows))
            total_buy_cost == ValueOfSide("B", Len(Rows))
        IN  /\ L.shown <=> SideRows("B") # {}
            /\ L.shown =>
                  /\ L.current = ScaledCurrentSize
                  /\ L.total = total_buy_size
                  /\ L.net = DecAdd(ScaledCurrentSize, total_buy_size)
                  /\ L.capital = total_buy_cost
                  /\ L.avg # None <=> L.net.c > 0
                  /\ (L.avg # None /\ ScaledCurrentSize.c > 0) =>
                        Get(L.avg) =
                            DecDiv(DecAdd(DecMul(ScaledCurrentSize, CurrentEntry),
                                          total_buy_cost), L.net)
                  /\ (L.avg # None /\ ScaledCurrentSize.c <= 0) =>
                        Get(L.avg) = DecDiv(total_buy_cost, total_buy_size)

\* A short position that the buy orders turn long: the average is that of
\* the buy orders, not the blend with the entry price.
C6_Witness ==
    /\ long_summary # None
    /\ Get(long_summary).shown
    /\ ScaledCurrentSize.c < 0
    /\ Get(long_summary).net.c > 0
    /\ Get(long_summary).avg =
           Some(DecDiv(ValueOfSide("B", Len(Rows)), SizeOfSide("B", Len(Rows))))
    /\ Get(long_summary).avg #
           Some(DecDiv(DecAdd(DecMul(ScaledCurrentSize, CurrentEntry),
                              ValueOfSide("B", Len(Rows))), Get(long_summary).net))

(***************************************************************************)
(* C7.  Sell-fill projection, the mirror image.  It is reported iff a      *)
(* sell order exists, with net_position = scaled_current_size -            *)
(* total_sell_size and capital_required = total_sell_value; an average     *)
(* entry is emitted iff net_position < 0: (|scaled_current_size| * entry   *)
(* + total_sell_value) / |net_position| when scaled_current_size < 0, and  *)
(* total_sell_value / total_sell_size otherwise.  Its sums range over the  *)
(* sell orders only (C6: the buy orders only), and a run that prints the   *)
(* table runs both summaries before it ends.                               *)
(***************************************************************************)
C7_SellFillProjection ==
    /\ short_summary # None =>
        LET S == Get(short_summary)
            total_sell_size == SizeOfSide("A", Len(Rows))
            total_sell_value == ValueOfSide("A", Len(Rows))
        IN  /\ S.shown <=> SideRows("A") # {}
            /\ S.shown =>
                  /\ S.current = ScaledCurrentSize
                  /\ S.total = total_sell_size
                  /\ S.net = DecSub(ScaledCurrentSize, total_sell_size)
                  /\ S.capital = total_sell_value
                  /\ S.avg # None <=> S.net.c < 0
                  /\ (S.avg # None /\ ScaledCurrentSize.c < 0) =>
                        Get(S.avg) =
                            DecDiv(DecAdd(DecMul(DecAbs(ScaledCurrentSize), CurrentEntry),
                                          total_sell_value), DecAbs(S.net))
                  /\ (S.avg # None /\ ScaledCurrentSize.c >= 0) =>
                        Get(S.avg) = DecDiv(total_sell_value, total_sell_size)
    /\ short_summary # None => long_summary # None
    /\ (table # None /\ pc = "exited") =>
          /\ long_summary # None
          /\ short_summary # None
          /\ exit_status = Some(0)

\* A long position that the sell orders turn short, with buy orders in the
\* list as well.
C7_Witness ==
    /\ short_summary # None
    /\ Get(short_summary).shown
    /\ Get(long_summary).shown
    /\ ScaledCurrentSize.c > 0
    /\ Get(short_summary).net.c < 0
    /\ Get(short_summary).avg =
           Some(DecDiv(ValueOfSide("A", Len(Rows)), SizeOfSide("A", Len(Rows))))

(***************************************************************************)
(* C8.  determine_position_direction returns long iff the signed size is   *)
(* positive, short iff it is negative and None iff it is zero, a missing   *)
(* size counting as zero; it returns exactly one of the three.             *)
(***************************************************************************)
C8_DirectionBySign ==
    Called("determine_position_direction") =>
        /\ account_direction \in {"long", "short", "None"}
        /\ account_direction = "long" <=> SignedSizeSign > 0
        /\ account_direction = "short" <=> SignedSizeSign < 0
        /\ account_direction = "None" <=> SignedSizeSign = 0

C8_Witness ==
    /\ Called("determine_position_direction")
    /\ Get(btc_position).szi = None
    /\ account_direction = "None"

(***************************************************************************)
(* C9.  scale_orders returns one scaled order per input order, in the      *)
(* order of the input, and none for an empty input; each carries the side  *)
(* and the limit price of its input order unchanged and the notional       *)
(* scaled_size * price, and the input orders are left as fetched.          *)
(***************************************************************************)
C9_ScaledOrdersFrame ==
    /\ scaled_orders # None =>
          /\ Len(Rows) = Len(btc_orders)
          /\ \A i \in 1..Len(Rows) :
                /\ Rows[i].side = btc_orders[i].side
                /\ Rows[i].price = Norm(btc_orders[i].limitPx.c, btc_orders[i].limitPx.e)
                /\ Rows[i].original_size =
                       Norm(Abs(btc_orders[i].sz.c), btc_orders[i].sz.e)
                /\ Rows[i].notional = ExactMul(Rows[i].scaled_size, Rows[i].price)
          /\ btc_orders = SelectSeq(Get(orders), LAMBDA o : o.coin = "BTC")
    /\ ratio # None => scale_orders(<<>>, Get(ratio)) = <<>>

C9_Witness ==
    /\ scaled_orders # None
    /\ Len(Rows) = 2
    /\ Rows[1].side = "A"
    /\ Rows[2].side = "B"
    /\ Rows[1].price # Rows[2].price
    /\ Rows[1].scaled_size # Rows[2].scaled_size

(***************************************************************************)
(* C10.  The last activity is "Unknown" iff no order and no fill carries   *)
(* a timestamp; otherwise it renders the latest timestamp of all orders    *)
(* and fills: with d the whole seconds elapsed, "just now" for d < 60,     *)
(* d div 60 minutes for d < 3600, d div 3600 hours for d < 86400,          *)
(* d div 86400 days for d < 604800, d div 604800 weeks for d < 2592000,    *)
(* else d div 2592000 months, the unit in the singular exactly for 1.      *)
(***************************************************************************)
AllTimestamps ==
    { Get(Get(orders)[i].timestamp) :
         i \in { j \in 1..Len(Get(orders)) : Get(orders)[j].timestamp # None } }
    \cup { Get(Get(fills)[i].time) :
              i \in { j \in 1..Len(Get(fills)) : Get(fills)[j].time # None } }

Rendering(d) ==
    LET n == IF d < 3600 THEN d \div 60
             ELSE IF d < 86400 THEN d \div 3600
             ELSE IF d < 604800 THEN d \div 86400
             ELSE IF d < 2592000 THEN d \div 604800
             ELSE d \div 2592000
        unit == IF d < 3600 THEN "minute"
                ELSE IF d < 86400 THEN "hour"
                ELSE IF d < 604800 THEN "day"
                ELSE IF d < 2592000 THEN "week"
                ELSE "month"
    IN  IF d < 60 THEN [n |-> 0, unit |-> "just now", s |-> ""]
        ELSE [n |-> n, unit |-> unit, s |-> IF n = 1 THEN "" ELSE "s"]

C10_LastActivity ==
    last_activity # None =>
        /\ Get(last_activity).unit = "Unknown" <=> AllTimestamps = {}
        /\ AllTimestamps # {} =>
              \E latest \in AllTimestamps :
                  /\ \A t \in AllTimestamps : t <= latest
                  /\ Get(last_activity) = Rendering((clock - latest) \div TicksPerSecond)

\* The fill is the latest of two timestamps and is one week old.
C10_Witness ==
    /\ last_activity # None
    /\ Cardinality(AllTimestamps) = 2
    /\ Len(Get(fills)) = 1
    /\ Get(fills)[1].time # None
    /\ \A t \in AllTimestamps : t <= Get(Get(fills)[1].time)
    /\ Get(last_activity) = [n |-> 1, unit |-> "week", s |-> ""]

(***************************************************************************)
(* The scaled current position against the desired size and the declared   *)
(* direction of the user, in the runs that reach the projections.          *)
(***************************************************************************)
ReachesProjections == table # None

DeclaredSign == IF user_direction = "long" THEN 1 ELSE -1

\* |x| = u up to two roundings of the Decimal context (the quotient and
\* the product): | |x| - u | <= 2 * 10^(1 - Prec) * u, on aligned integers.
WithinRounding(x, u) ==
    LET m == IF x.e < u.e THEN x.e ELSE u.e
        X == Abs(x.c) * Pow10(x.e - m)
        U == u.c * Pow10(u.e - m)
    IN  Abs(X - U) <= (2 * U) \div Pow10(Prec - 1)

\* A long user's buy projection and a short user's sell projection end on
\* the user's side, with the blended average.
SameSideProjectionsBlended ==
    /\ (long_summary # None /\ user_direction = "long"
           /\ Get(long_summary).shown) =>
          /\ Get(long_summary).current = ScaledCurrentSize
          /\ Get(long_summary).net.c > 0
          /\ Get(long_summary).branch = "blended"
    /\ (short_summary # None /\ user_direction = "short"
           /\ Get(short_summary).shown) =>
          /\ Get(short_summary).current = ScaledCurrentSize
          /\ Get(short_summary).net.c < 0
          /\ Get(short_summary).branch = "blended"

(***************************************************************************)
(* C11, as stated.  In a run that reaches the projections the scaled       *)
(* current position has magnitude EQUAL to the desired size and the sign   *)
(* of the declared direction; a long user's buy projection has             *)
(* net_position > 0 and a short user's sell projection net_position < 0,   *)
(* each with the blended average.                                          *)
(***************************************************************************)
C11_ScaledPositionIsDesiredSize ==
    ReachesProjections =>
        /\ DecAbs(ScaledCurrentSize) = Get(user_btc_size)
        /\ Sign(ScaledCurrentSize.c) = DeclaredSign
        /\ SameSideProjectionsBlended

(***************************************************************************)
(* C11, amended.  The magnitude equals the desired size up to the rounding *)
(* of the quotient and of the product in the Decimal context; the sign is  *)
(* that of the declared direction, so the value is never zero, and the     *)
(* projections on the user's side are as stated.                           *)
(***************************************************************************)
C11_ScaledPositionNearDesiredSize ==
    ReachesProjections =>
        /\ WithinRounding(ScaledCurrentSize, Get(user_btc_size))
        /\ Sign(ScaledCurrentSize.c) = DeclaredSign
        /\ ScaledCurrentSize # Zero
        /\ SameSideProjectionsBlended

\* A long user whose scaled position falls short of the desired size by
\* the rounding of the ratio, with the buy projection reported.
C11_Witness ==
    /\ long_summary # None
    /\ user_direction = "long"
    /\ Get(long_summary).shown
    /\ Get(long_summary).branch = "blended"
    /\ DecLess(Get(long_summary).current, Get(user_btc_size))

(***************************************************************************)
(* C12.  Neither projection divides by zero, whatever the order list, the  *)
(* signed position size, the entry price and the positive ratio: when an   *)
(* average entry is computed its divisor is strictly positive              *)
(* (net_position or |net_position| in the blended branch, total_buy_size   *)
(* or total_sell_size in the other), and the zero fallback of the other    *)
(* branch is never taken.                                                  *)
(***************************************************************************)
DivisorPositive(summary) ==
    (summary.shown /\ summary.avg # None) =>
        /\ summary.branch \in {"blended", "orders only"}
        /\ summary.branch = "blended" => DecAbs(summary.net).c > 0
        /\ summary.branch = "orders only" => summary.total.c > 0

C12_NoDivisionByZero ==
    /\ long_summary # None =>
          /\ DivisorPositive(Get(long_summary))
          /\ Get(long_summary).branch # "zero"
    /\ short_summary # None =>
          /\ DivisorPositive(Get(short_summary))
          /\ Get(short_summary).branch # "zero"

\* Every scaled size has truncated to 0.000 and the buy projection still
\* computes an average: the blended one, over the scaled position alone.
C12_Witness ==
    /\ long_summary # None
    /\ Get(long_summary).shown
    /\ Rows # <<>>
    /\ \A i \in 1..Len(Rows) : Rows[i].scaled_size = Zero
    /\ Get(long_summary).avg # None
    /\ Get(long_summary).total = Zero

====
